---- MODULE Spec2Model ----
(***************************************************************************)
(* Slot sandbox dispatcher (sandbox.js: ensureWorker / runSlot) and the    *)
(* worker message handler (slotWorker.js: self.onmessage).                 *)
(*                                                                         *)
(* The caller's thread runs runSlot, the timeout callbacks and the         *)
(* onmessage / onerror handlers, each to completion (one action each).     *)
(* Every worker runs its own handler, one request message at a time.       *)
(* Requests are well-typed SlotRequests: input, params and outputSchema    *)
(* are JSON values, so worker.postMessage always accepts them.             *)
(***************************************************************************)
EXTENDS Naturals, Sequences, FiniteSets

\* number of runSlot calls a behaviour issues
MaxCalls == 2

Calls == 1..MaxCalls
\* every runSlot call creates at most one worker
Workers == 1..MaxCalls

\* the `null` of the module-level handle, and "no handler installed"
Null == 0

\* What a slot's source text says, as the body of a function:
\*   "ok"        passes validation, returns a value that passes validateOutput
\*   "invalid"   fails validateSlot
\*   "throws"    passes validation, throws an Error
\*   "thrownull" passes validation, throws null
\*   "badout"    passes validation, returns a value validateOutput rejects
\*   "loop"      passes validation, never returns
Codes == {"ok", "invalid", "throws", "thrownull", "badout", "loop"}

VARIABLES
  _worker,      \* sandbox.js `let _worker`: Null or the current Worker
  nCalls,       \* runSlot calls issued so far; call ids are 1..nCalls
  nWorkers,     \* Worker objects constructed so far; ids are 1..nWorkers
  terminated,   \* Workers on which terminate() has been called
  status,       \* per Worker: "none", "loading", "ready", "hung", "failed"
  onmessage,    \* per Worker: the call whose closure is worker.onmessage
  onerror,      \* per Worker: the call whose closure is worker.onerror
  inbox,        \* per Worker: request messages posted and not yet handled
  outbox,       \* per Worker: events queued for the caller's thread
  callWorker,   \* per call: the `worker` captured by the call's closures
  callCode,     \* per call: the behaviour of the `code` argument
  timer,        \* per call: "none", "armed", "cleared", "fired"
  promise,      \* per call: "none", "pending", "fulfilled"; with faults
                \* also "rejected", and "thrown" when runSlot threw
  result,       \* per call: the value the promise was resolved with
  resolveCount, \* per call: how many times its `resolve` has been invoked
  sequential    \* TRUE while every call was issued with no call pending

\* One run of the worker's message handler, statement by statement, on a
\* request given by its source text and its output schema.
VARIABLES
  hPc,          \* "idle", "validate", "compile", "hung", "done"
  hReq,         \* the request message: [src, schema]
  hReport,      \* `v`, the report of validateSlot(code)
  hResult,      \* `result`, the value exec(...) returned
  hOutReport,   \* `o`, the report of validateOutput(result, outputSchema)
  hPhases,      \* the phases the handler has entered, in order
  hCompiled,    \* TRUE once `new Function(...)` has been evaluated
  hPosted,      \* the events the handler has raised for the Worker object
  hTimer,       \* `timer` of the handler: "none", "armed", "cleared"
  mReport,      \* the report of sandbox.js validateSlot(code) on the source
  hSeen         \* a request the worker served and the events it answered with

handlerVars == <<hPc, hReq, hReport, hResult, hOutReport, hPhases, hCompiled,
                 hPosted, hTimer, mReport, hSeen>>

\* The deadline of one runSlot call against a clock in milliseconds.
VARIABLES
  tOptions,     \* the `options` argument: [timeout, timeoutMs]
  tState,       \* "idle", "pending", "timedout"
  tNow,         \* time elapsed since the call
  tDeadline     \* the delay given to setTimeout

clockVars == <<tOptions, tState, tNow, tDeadline>>

\* The object createUtils() returns, in the hands of code that holds it:
\* calls of its members and assignments to them.
VARIABLES
  uPc,          \* "idle", "created" (createUtils has returned), "running"
                \* (the object has been used)
  uS,           \* `s`, the state of the closure behind utils.random
  uN,           \* calls made of the function createUtils made as `random`
  uOut,         \* what the last call of a member returned, or Thrown
  uMembers,     \* what the members random and mean of the object hold
  uServed,      \* TRUE once an earlier object has been used
  uCall         \* the last call of a member: [fn, a, q, member]

utilsVars == <<uPc, uS, uN, uOut, uMembers, uServed, uCall>>

dispatcherVars ==
  <<_worker, nCalls, nWorkers, terminated, status, onmessage, onerror,
    inbox, outbox, callWorker, callCode, timer, promise, result,
    resolveCount, sequential>>

vars == <<_worker, nCalls, nWorkers, terminated, status, onmessage, onerror,
          inbox, outbox, callWorker, callCode, timer, promise, result,
          resolveCount, sequential, handlerVars, clockVars, utilsVars>>

\* --------------------------------------------------------------------------
\* Result values.  `req` records which call's request the worker was handling
\* when it produced the value (Null for values made on the caller's side); it
\* is bookkeeping of the model, the messages of the program carry no id.

NoResult == [ok |-> FALSE, code |-> "", phase |-> "", req |-> Null]

\* variant with a fault: the failure envelope lacks its phase
FailureNoPhase(code, phase, req) ==
  [ok |-> FALSE, code |-> code, phase |-> "", req |-> req]

Failure(code, phase, req) ==
  [ok |-> FALSE, code |-> code, phase |-> phase, req |-> req]

Success(req) == [ok |-> TRUE, code |-> "", phase |-> "", req |-> req]

\* --------------------------------------------------------------------------
\* slotWorker.js

\* validateSlot(code).ok
validateSlot(code) == code # "invalid"

\* The text `wrapped` that self.onmessage hands to new Function: it opens
\* with the directive 'use strict' and declares these names with const
WrappedStrict == TRUE
WrappedConsts == {"_Math", "window", "document", "globalThis", "selfRef",
                  "Function", "eval", "fetch", "WebSocket", "Date", "Math"}

\* new Function('input', 'params', 'utils', wrapped) throws a SyntaxError:
\* strict code may not bind `eval` or `arguments`
NewFunctionThrows ==
  WrappedStrict /\ (WrappedConsts \cap {"eval", "arguments"}) # {}

\* The declarations of `wrapped` in the order of the text, and the names the
\* initialiser of each one reads: `const _Math = globalThis.Math` comes
\* before `const globalThis = undefined`, and Math is built from _Math
WrappedOrder == <<"_Math", "window", "document", "globalThis", "selfRef",
                  "Function", "eval", "fetch", "WebSocket", "Date", "Math">>
WrappedReads ==
  [n \in WrappedConsts |->
     CASE n = "_Math" -> {"globalThis"}
       [] n = "Math" -> {"Object", "_Math"}
       [] OTHER -> {}]

\* The function that new Function would return throws a ReferenceError in
\* its prelude, before the slot code: an initialiser reads a name whose
\* const declaration in the same scope has not been evaluated yet
PreludeThrows ==
  \E i, j \in 1..Len(WrappedOrder) :
    i <= j /\ WrappedOrder[j] \in WrappedReads[WrappedOrder[i]]

\* how exec(input, params, utils) ends, once new Function has returned it
exec(code) ==
  IF PreludeThrows THEN "throwError" ELSE
  CASE code = "throws" -> "throwError"
    [] code = "thrownull" -> "throwNull"
    [] code = "loop" -> "never"
    [] OTHER -> "return"

\* validateOutput(result, outputSchema).ok
validateOutput(code) == code # "badout"

MessageEvent(data) == [type |-> "message", data |-> data]
ErrorEvent(req) == [type |-> "error", data |-> Failure("", "", req)]

\* The module body of slotWorker.js: importScripts(...) and the definitions.
\* When it throws, the Worker object receives an error event and the handler
\* is never installed.
WorkerLoad(w) ==
  /\ status[w] = "loading"
  /\ w \notin terminated
  /\ \E loaded \in BOOLEAN :
       IF loaded
         THEN /\ status' = [status EXCEPT ![w] = "ready"]
              /\ outbox' = outbox
         ELSE /\ status' = [status EXCEPT ![w] = "failed"]
              /\ outbox' = [outbox EXCEPT ![w] = Append(@, ErrorEvent(Null))]
  /\ UNCHANGED <<_worker, nCalls, nWorkers, terminated, onmessage, onerror,
                 inbox, callWorker, callCode, timer, promise, result,
                 resolveCount, sequential,
                 handlerVars, clockVars, utilsVars>>

\* self.onmessage: the events the handler queues for the Worker object, or
\* none when the slot code never returns.
HandlerEvents(req) ==
  IF ~validateSlot(req.code)
    THEN <<MessageEvent(Failure("VALIDATION_ERROR", "validation", req.id))>>
  ELSE IF NewFunctionThrows
    THEN <<MessageEvent(Failure("EXECUTION_ERROR", "execution", req.id))>>
  ELSE CASE exec(req.code) = "throwError" ->
              <<MessageEvent(Failure("EXECUTION_ERROR", "execution", req.id))>>
         [] exec(req.code) = "throwNull" ->
              \* `err.message` of the catch block throws: uncaught
              <<ErrorEvent(req.id)>>
         [] exec(req.code) = "never" -> <<>>
         [] OTHER ->
              IF ~validateOutput(req.code)
                THEN <<MessageEvent(
                         Failure("OUTPUT_VALIDATION_ERROR", "output", req.id))>>
                ELSE <<MessageEvent(Success(req.id))>>

WorkerOnMessage(w) ==
  /\ status[w] = "ready"
  /\ w \notin terminated
  /\ inbox[w] # <<>>
  /\ LET req == Head(inbox[w]) IN
       /\ inbox' = [inbox EXCEPT ![w] = Tail(@)]
       /\ outbox' = [outbox EXCEPT ![w] = @ \o HandlerEvents(req)]
       /\ status' = [status EXCEPT ![w] =
                       IF /\ validateSlot(req.code)
                          /\ ~NewFunctionThrows
                          /\ exec(req.code) = "never"
                         THEN "hung" ELSE @]
  /\ UNCHANGED <<_worker, nCalls, nWorkers, terminated, onmessage, onerror,
                 callWorker, callCode, timer, promise, result,
                 resolveCount, sequential,
                 handlerVars, clockVars, utilsVars>>

\* --------------------------------------------------------------------------
\* slotWorker.js in detail: source texts, values and schemas

\* longest source text, in statements
MaxSrcLen == 3
\* most properties an output schema declares
MaxProps == 2

\* A source text is a sequence of statements:
\*   "ret5"    return 5;
\*   "retObj"  return {a: 1};
\*   "retNull" return null;
\*   "retArr"  return new Array(50001).fill(0);
\*   "cmt"     /* return x */        (a comment holding the text "return ")
\*   "window"  window;
\*   "fetch"   fetch;
\*   "input"   input.a;
\*   "fn{"     function f() {        (opens a nested function body)
\*   "}"       }                     (closes it)
\*   "throwE"  throw new Error('x');
\*   "throw0"  throw null;
\*   "throwS"  throw 'x';
\*   "loop"    while (true) {}
Statements == {"ret5", "retObj", "retNull", "retArr", "cmt", "window", "fetch",
               "input", "fn{", "}", "throwE", "throw0", "throwS", "loop"}

SeqsUpTo(S, n) == UNION {[1..k -> S] : k \in 0..n}

Sources == SeqsUpTo(Statements, MaxSrcLen)

\* JavaScript values a slot can return, by what the handler observes of them:
\* typeof, null-ness, own keys, array length, and the length of
\* JSON.stringify(value) (0 when JSON.stringify returns undefined).
Value(type, isNull, isArray, keys, len, size) ==
  [type |-> type, isNull |-> isNull, isArray |-> isArray, keys |-> keys,
   len |-> len, size |-> size]

Undefined == Value("undefined", FALSE, FALSE, {}, 0, 0)
Number5 == Value("number", FALSE, FALSE, {}, 0, 1)
NullValue == Value("object", TRUE, FALSE, {}, 0, 4)
Keys == {"a", "b"}
\* {}, {"a":1}, {"a":1,"b":1}
Obj(keys) == Value("object", FALSE, FALSE, keys, 0, 1 + 6 * Cardinality(keys)
                                                     + (IF keys = {} THEN 1 ELSE 0))
\* [0,0,...,0] with len elements
Arr(len) == Value("object", FALSE, TRUE, {}, len, 2 * len + 1)

\* the structured clone of postMessage accepts the value
Cloneable(value) == value.type # "function"

\* 1024 * 1024 of validateOutput
MaxOutputSize == 1048576
\* the array-length ceiling of the specification and of sandbox.js
MaxArrayLength == 50000

\* Output schemas: `none` stands for an omitted schema; type "" and
\* hasProps = FALSE stand for omitted members; props lists the entries of
\* schema.properties in order.
NoSchema == [none |-> TRUE, type |-> "", hasProps |-> FALSE, props |-> <<>>]

PropLists ==
  {ps \in SeqsUpTo([key : Keys, optional : BOOLEAN], MaxProps) :
     \A i, j \in 1..Len(ps) : ps[i].key = ps[j].key => i = j}

Schemas ==
  {NoSchema} \cup
  {[none |-> FALSE, type |-> t, hasProps |-> FALSE, props |-> <<>>] :
     t \in {"", "object", "number"}} \cup
  {[none |-> FALSE, type |-> t, hasProps |-> TRUE, props |-> ps] :
     t \in {"", "object", "number"}, ps \in PropLists}

\* nesting depth of the i-th statement of a source
Depth(src, i) ==
  Cardinality({j \in 1..(i - 1) : src[j] = "fn{"})
    - Cardinality({j \in 1..(i - 1) : src[j] = "}"})

IsReturn(st) == st \in {"ret5", "retObj", "retNull", "retArr"}

\* /return\s+/.test(code)
ReturnRegex(src) == \E i \in 1..Len(src) : IsReturn(src[i]) \/ src[i] = "cmt"

\* self.acorn.parse(code, {ecmaVersion: 2020, sourceType: 'script'}) returns a
\* tree: braces balance and no return statement stands outside a function
\* (the option allowReturnOutsideFunction is not given).
AcornParses(src) ==
  /\ \A i \in 1..Len(src) : src[i] = "}" => Depth(src, i) >= 1
  /\ Depth(src, Len(src) + 1) = 0
  /\ \A i \in 1..Len(src) : IsReturn(src[i]) => Depth(src, i) >= 1

BLACKLISTED_IDENTIFIERS ==
  {"eval", "Function", "constructor", "__proto__",
   "window", "document", "fetch", "XMLHttpRequest",
   "WebSocket", "importScripts", "self", "globalThis",
   "require", "module", "exports", "process"}

\* walkNode over the tree: the errors of the statements i..Len(src), in order
RECURSIVE walkNode(_, _)
walkNode(src, i) ==
  IF i > Len(src) THEN <<>>
  ELSE (IF src[i] \in BLACKLISTED_IDENTIFIERS
          THEN <<"Blacklisted identifier: " \o src[i]>>
          ELSE <<>>) \o walkNode(src, i + 1)

\* validateSlot(code) of slotWorker.js: { ok, errors }
validateSlotReport(src) ==
  LET returnErrors == IF ReturnRegex(src) THEN <<>>
                      ELSE <<"Function must have a return statement">>
      astErrors == IF AcornParses(src) THEN walkNode(src, 1)
                   ELSE <<"Parse error">>
      errors == returnErrors \o astErrors
  IN [ok |-> errors = <<>>, errors |-> errors]

\* validateSlot(code) of sandbox.js (exported, regular expressions only);
\* of its forbidden patterns the statements can match the one for fetch
sandboxValidateSlot(src) ==
  LET returnErrors == IF ReturnRegex(src) THEN <<>>
                      ELSE <<"Function must have a return statement">>
      patternErrors == IF \E i \in 1..Len(src) : src[i] = "fetch"
                         THEN <<"Forbidden pattern: fetch">> ELSE <<>>
      errors == returnErrors \o patternErrors
  IN [ok |-> errors = <<>>, errors |-> errors]

\* What evaluating the source as the body of function(input, params, utils)
\* does: the first statement at depth 0 that ends the body decides, and a body
\* that runs off its end returns undefined.
RECURSIVE bodyOutcome(_, _)
bodyOutcome(src, i) ==
  IF i > Len(src) THEN [kind |-> "return", value |-> Undefined]
  ELSE IF Depth(src, i) # 0 THEN bodyOutcome(src, i + 1)
  ELSE CASE src[i] = "ret5" -> [kind |-> "return", value |-> Number5]
         [] src[i] = "retObj" -> [kind |-> "return", value |-> Obj({"a"})]
         [] src[i] = "retNull" -> [kind |-> "return", value |-> NullValue]
         [] src[i] = "retArr" ->
              [kind |-> "return", value |-> Arr(MaxArrayLength + 1)]
         [] src[i] = "throwE" -> [kind |-> "throwError", value |-> Undefined]
         [] src[i] = "throw0" -> [kind |-> "throwNull", value |-> Undefined]
         [] src[i] = "throwS" -> [kind |-> "throwString", value |-> Undefined]
         [] src[i] = "loop" -> [kind |-> "never", value |-> Undefined]
         [] OTHER -> bodyOutcome(src, i + 1)

\* const result = exec(input, params, utils): the prelude of `wrapped`, then
\* the slot code
execOutcome(src) ==
  IF PreludeThrows
    THEN [kind |-> "throwReference", value |-> Undefined]
    ELSE bodyOutcome(src, 1)

\* the `Missing required output property` errors of the entries i..Len(props)
RECURSIVE missingProperties(_, _, _)
missingProperties(value, props, i) ==
  IF i > Len(props) THEN <<>>
  ELSE (IF props[i].key \notin value.keys /\ ~props[i].optional
          THEN <<"Missing required output property: " \o props[i].key>>
          ELSE <<>>) \o missingProperties(value, props, i + 1)

\* validateOutput(result, schema) of slotWorker.js: { ok, errors }, or a
\* TypeError (threw) from `k in null` or from the length of
\* JSON.stringify(result) when that is undefined
validateOutputReport(value, schema) ==
  IF schema.none THEN [threw |-> FALSE, ok |-> TRUE, errors |-> <<>>]
  ELSE
    LET walksProps == schema.hasProps /\ value.type = "object"
        typeErrors == IF schema.type # "" /\ value.type # schema.type
                        THEN <<"Expected output type " \o schema.type>>
                        ELSE <<>>
        propErrors == IF walksProps
                        THEN missingProperties(value, schema.props, 1)
                        ELSE <<>>
        sizeErrors == IF value.size > MaxOutputSize
                        THEN <<"Output size too large (max 1MB)">> ELSE <<>>
        errors == typeErrors \o propErrors \o sizeErrors
    IN IF \/ (walksProps /\ value.isNull /\ schema.props # <<>>)
          \/ value.size = 0
         THEN [threw |-> TRUE, ok |-> FALSE, errors |-> <<>>]
         ELSE [threw |-> FALSE, ok |-> errors = <<>>, errors |-> errors]

\* --------------------------------------------------------------------------
\* sandbox.js

\* ensureWorker(): the Worker the call uses, `new Worker(...)` when the
\* handle is empty
\* Variants of ensureWorker with a fault, used to test the properties below:
\* a handle that is only ever set once: the last Worker constructed is reused
ensureWorkerStale == IF nWorkers > 0 THEN nWorkers ELSE 1

\* no reuse: every call constructs a Worker
ensureWorkerFresh == nWorkers + 1

ensureWorker == IF _worker # Null THEN _worker ELSE nWorkers + 1

\* resolve(v) of a call's promise: only the first invocation settles it
ResolvedPromise(c) ==
  [promise EXCEPT ![c] = IF @ = "pending" THEN "fulfilled" ELSE @]

\* variant with a fault: every invocation of resolve overwrites the value
ResolvedResultLast(c, v) == [result EXCEPT ![c] = v]

ResolvedResult(c, v) ==
  [result EXCEPT ![c] = IF promise[c] = "pending" THEN v ELSE @]

\* variant with a fault: the timeout is never armed
SetTimeoutNever(c) == [timer EXCEPT ![c] = "cleared"]

\* timer = setTimeout(..., timeout + 50) of call c
SetTimeout(c) == [timer EXCEPT ![c] = "armed"]

\* variant with a fault: the handlers leave the timeout armed
ClearTimeoutNoop(c) == timer

\* clearTimeout(timer) of call c
ClearTimeout(c) == [timer EXCEPT ![c] = IF @ = "armed" THEN "cleared" ELSE @]

RunSlot(code) ==
  /\ nCalls < MaxCalls
  /\ LET c == nCalls + 1
         worker == ensureWorker
     IN
       /\ nCalls' = c
       /\ _worker' = worker
       /\ nWorkers' = IF worker > nWorkers THEN worker ELSE nWorkers
       /\ status' = IF worker > nWorkers
                      THEN [status EXCEPT ![worker] = "loading"]
                      ELSE status
       /\ callWorker' = [callWorker EXCEPT ![c] = worker]
       /\ callCode' = [callCode EXCEPT ![c] = code]
       /\ promise' = [promise EXCEPT ![c] = "pending"]
       /\ timer' = SetTimeout(c)
       /\ onmessage' = [onmessage EXCEPT ![worker] = c]
       /\ onerror' = [onerror EXCEPT ![worker] = c]
       /\ inbox' = [inbox EXCEPT ![worker] =
                      Append(@, [id |-> c, code |-> code])]
       /\ sequential' = (sequential /\
                          \A d \in 1..nCalls : promise[d] # "pending")
  /\ UNCHANGED <<terminated, outbox, result, resolveCount,
                 handlerVars, clockVars, utilsVars>>

\* the setTimeout callback of call c
TimerFire(c) ==
  /\ timer[c] = "armed"
  /\ timer' = [timer EXCEPT ![c] = "fired"]
  /\ terminated' = terminated \cup {callWorker[c]}
     \* events the terminated worker had already queued are either dropped
     \* or still dispatched, depending on the host
  /\ \E keep \in BOOLEAN :
       outbox' = [outbox EXCEPT ![callWorker[c]] = IF keep THEN @ ELSE <<>>]
  /\ _worker' = Null
  /\ promise' = ResolvedPromise(c)
  /\ result' = ResolvedResult(c, Failure("EXECUTION_TIMEOUT", "execution", Null))
  /\ resolveCount' = [resolveCount EXCEPT ![c] = @ + 1]
  /\ UNCHANGED <<nCalls, nWorkers, status, onmessage, onerror, inbox,
                 callWorker, callCode, sequential,
                 handlerVars, clockVars, utilsVars>>

\* worker.onmessage = (e) => { clearTimeout(timer); resolve(e.data); }
OnMessage(w) ==
  /\ outbox[w] # <<>>
  /\ Head(outbox[w]).type = "message"
  /\ LET c == onmessage[w] IN
       /\ timer' = ClearTimeout(c)
       /\ promise' = ResolvedPromise(c)
       /\ result' = ResolvedResult(c, Head(outbox[w]).data)
       /\ resolveCount' = [resolveCount EXCEPT ![c] = @ + 1]
  /\ outbox' = [outbox EXCEPT ![w] = Tail(@)]
  /\ UNCHANGED <<_worker, nCalls, nWorkers, terminated, status, onmessage,
                 onerror, inbox, callWorker, callCode, sequential,
                 handlerVars, clockVars, utilsVars>>

\* worker.onerror = (error) => { clearTimeout(timer); _worker = null; ... }
OnError(w) ==
  /\ outbox[w] # <<>>
  /\ Head(outbox[w]).type = "error"
  /\ LET c == onerror[w] IN
       /\ timer' = ClearTimeout(c)
       /\ promise' = ResolvedPromise(c)
       /\ result' = ResolvedResult(c, Failure("WORKER_ERROR", "execution",
                                              Head(outbox[w]).data.req))
       /\ resolveCount' = [resolveCount EXCEPT ![c] = @ + 1]
  /\ _worker' = Null
  /\ outbox' = [outbox EXCEPT ![w] = Tail(@)]
  /\ UNCHANGED <<nCalls, nWorkers, terminated, status, onmessage, onerror,
                 inbox, callWorker, callCode, sequential,
                 handlerVars, clockVars, utilsVars>>

\* --------------------------------------------------------------------------

DispatcherInit ==
  /\ _worker = Null
  /\ nCalls = 0
  /\ nWorkers = 0
  /\ terminated = {}
  /\ status = [w \in Workers |-> "none"]
  /\ onmessage = [w \in Workers |-> Null]
  /\ onerror = [w \in Workers |-> Null]
  /\ inbox = [w \in Workers |-> <<>>]
  /\ outbox = [w \in Workers |-> <<>>]
  /\ callWorker = [c \in Calls |-> Null]
  /\ callCode = [c \in Calls |-> ""]
  /\ timer = [c \in Calls |-> "none"]
  /\ promise = [c \in Calls |-> "none"]
  /\ result = [c \in Calls |-> NoResult]
  /\ resolveCount = [c \in Calls |-> 0]
  /\ sequential = TRUE

\* the handler and the clock before their first request
NoReport == [ok |-> FALSE, errors |-> <<>>]
NoOutReport == [threw |-> FALSE, ok |-> FALSE, errors |-> <<>>]

\* no request observed yet
NoSeen == [set |-> FALSE, req |-> [src |-> <<>>, schema |-> NoSchema],
           posted |-> <<>>, later |-> FALSE]

HandlerIdle ==
  /\ hPc = "idle"
  /\ hReq = [src |-> <<>>, schema |-> NoSchema]
  /\ hReport = NoReport
  /\ hResult = Undefined
  /\ hOutReport = NoOutReport
  /\ hPhases = <<>>
  /\ hCompiled = FALSE
  /\ hPosted = <<>>
  /\ hTimer = "none"
  /\ mReport = NoReport
  /\ hSeen = NoSeen

\* an omitted member of `options`
Omitted == 0 - 1

ClockIdle ==
  /\ tOptions = [timeout |-> Omitted, timeoutMs |-> Omitted]
  /\ tState = "idle"
  /\ tNow = 0
  /\ tDeadline = 0

\* a JavaScript number that is a ratio of integers
Ratio(num, den) == [kind |-> "fin", num |-> num, den |-> den]

\* let s = 42
RandomSeed == 42
\* (s * 9301 + 49297) % 233280
RandomMultiplier == 9301
RandomIncrement == 49297
RandomModulus == 233280

NoCall == [fn |-> "", a |-> <<>>, q |-> Ratio(0, 1), member |-> "made"]

\* the members of the object as createUtils made them
MadeMembers == [random |-> "made", mean |-> "made"]

UtilsIdle ==
  /\ uPc = "idle"
  /\ uS = RandomSeed
  /\ uN = 0
  /\ uOut = Ratio(0, 1)
  /\ uMembers = MadeMembers
  /\ uServed = FALSE
  /\ uCall = NoCall

Next ==
  \/ \E code \in Codes : RunSlot(code)
  \/ \E c \in Calls : TimerFire(c)
  \/ \E w \in Workers : OnMessage(w)
  \/ \E w \in Workers : OnError(w)
  \/ \E w \in Workers : WorkerLoad(w)
  \/ \E w \in Workers : WorkerOnMessage(w)

Init == DispatcherInit /\ HandlerIdle /\ ClockIdle /\ UtilsIdle

Spec == Init /\ [][Next]_vars

\* --------------------------------------------------------------------------
\* slotWorker.js in detail: self.onmessage, statement by statement

\* self.postMessage({ ok: false, error: { code, message, phase } })
FailureMessage(code, message, phase) ==
  [type |-> "message", ok |-> FALSE, code |-> code, phase |-> phase,
   message |-> message, data |-> Undefined]

\* self.postMessage({ ok: true, data: result, exec_time_ms })
SuccessMessage(value) ==
  [type |-> "message", ok |-> TRUE, code |-> "", phase |-> "",
   message |-> <<>>, data |-> value]

\* an exception leaves the handler: error event on the Worker object
UncaughtError ==
  [type |-> "error", ok |-> FALSE, code |-> "", phase |-> "",
   message |-> <<"TypeError">>, data |-> Undefined]

\* variant with a fault: the handler goes on after a failed validation
ProceedsAlways(report) == TRUE

\* `if (!v.ok) { ...; return; }`: whether the handler goes on
Proceeds(report) == report.ok

\* a request message arrives: const { code, outputSchema, ... } = e.data.
\* The variables of the handler are new with each invocation.
HRequest(src, schema) ==
  /\ hPc' = "validate"
  /\ hReq' = [src |-> src, schema |-> schema]
  /\ UNCHANGED <<hReport, hResult, hOutReport, hPhases, hCompiled, hPosted,
                 hTimer, mReport, hSeen,
                 dispatcherVars, clockVars, utilsVars>>

\* the worker takes the next message when no handler is running
HReceive ==
  /\ hPc = "idle"
  /\ \E src \in Sources, schema \in Schemas : HRequest(src, schema)

\* const v = validateSlot(code); if (!v.ok) { postMessage(...); return; }
HValidate ==
  /\ hPc = "validate"
  /\ LET v == validateSlotReport(hReq.src) IN
       /\ hReport' = v
       /\ hPhases' = Append(hPhases, "validation")
       /\ IF Proceeds(v)
            THEN /\ hPc' = "compile"
                 /\ hPosted' = hPosted
            ELSE /\ hPc' = "done"
                 /\ hPosted' = Append(hPosted,
                      FailureMessage("VALIDATION_ERROR", v.errors, "validation"))
  /\ UNCHANGED <<hReq, hResult, hOutReport, hCompiled, hTimer, mReport, hSeen,
                 dispatcherVars, clockVars, utilsVars>>

\* variant with a fault: the catch block swallows the error
CatchPostNothing(posted, message) == posted

\* catch (err) { if (timer) clearTimeout(timer); self.postMessage({ok: false,
\* error: {code: 'EXECUTION_ERROR', message: err.message, ...}}); }
CatchPost(posted, message) ==
  Append(posted, FailureMessage("EXECUTION_ERROR", message, "execution"))

\* The try block and the catch block:
\*   const exec = new Function('input', 'params', 'utils', wrapped);
\*   timer = setTimeout(...); const result = exec(input, params, utils);
\*   clearTimeout(timer);
\*   const o = validateOutput(result, outputSchema);
\*   if (!o.ok) { postMessage(OUTPUT_VALIDATION_ERROR); return; }
\*   postMessage({ ok: true, data: result, ... });
\* When new Function throws, the timer has not been set.  When validateOutput
\* throws, or the structured clone of postMessage rejects the value
\* (DataCloneError), the catch block posts the failure.
HNewFunction ==
  /\ hPc = "compile"
  /\ hCompiled' = TRUE
  /\ IF NewFunctionThrows
       THEN /\ hPc' = "done"
            /\ hPhases' = Append(hPhases, "execution")
            /\ hPosted' = CatchPost(hPosted, <<"SyntaxError">>)
            /\ UNCHANGED <<hResult, hOutReport, hTimer>>
       ELSE LET out == execOutcome(hReq.src) IN
         CASE out.kind = "return" ->
                LET o == validateOutputReport(out.value, hReq.schema) IN
                  /\ hResult' = out.value
                  /\ hTimer' = "cleared"
                  /\ hOutReport' = o
                  /\ hPhases' = hPhases \o <<"execution", "output">>
                  /\ hPc' = "done"
                  /\ hPosted' =
                       IF o.threw THEN CatchPost(hPosted, <<"TypeError">>)
                       ELSE IF ~o.ok
                         THEN Append(hPosted,
                                FailureMessage("OUTPUT_VALIDATION_ERROR",
                                               o.errors, "output"))
                       ELSE IF Cloneable(out.value)
                         THEN Append(hPosted, SuccessMessage(out.value))
                       ELSE CatchPost(hPosted, <<"DataCloneError">>)
           [] out.kind = "never" ->
                /\ hPc' = "hung"
                /\ hTimer' = "armed"
                /\ hPhases' = Append(hPhases, "execution")
                /\ UNCHANGED <<hResult, hOutReport, hPosted>>
           [] out.kind = "throwNull" ->
                \* err.message of the catch block throws a TypeError
                /\ hPc' = "done"
                /\ hPosted' = Append(hPosted, UncaughtError)
                /\ hTimer' = "cleared"
                /\ hPhases' = Append(hPhases, "execution")
                /\ UNCHANGED <<hResult, hOutReport>>
           [] OTHER ->
                /\ hPc' = "done"
                /\ hTimer' = "cleared"
                /\ hPhases' = Append(hPhases, "execution")
                /\ hPosted' = CatchPost(hPosted,
                     CASE out.kind = "throwReference" -> <<"ReferenceError">>
                       [] out.kind = "throwError" -> <<"x">>
                       [] OTHER -> <<>>)
                /\ UNCHANGED <<hResult, hOutReport>>
  /\ UNCHANGED <<hReq, hReport, mReport, hSeen,
                 dispatcherVars, clockVars, utilsVars>>

\* a caller applies the exported validateSlot of sandbox.js to the source
CheckSlot ==
  /\ hPc # "idle"
  /\ mReport = NoReport
  /\ mReport' = sandboxValidateSlot(hReq.src)
  /\ UNCHANGED <<hPc, hReq, hReport, hResult, hOutReport, hPhases, hCompiled,
                 hPosted, hTimer, hSeen,
                 dispatcherVars, clockVars, utilsVars>>

\* variant with a fault: the events of a request stay for the next one
HReturnKeeps ==
  /\ hPc = "done"
  /\ hPc' = "idle"
  /\ hReq' = [src |-> <<>>, schema |-> NoSchema]
  /\ hReport' = NoReport
  /\ hResult' = Undefined
  /\ hOutReport' = NoOutReport
  /\ hPhases' = <<>>
  /\ hCompiled' = FALSE
  /\ hTimer' = "none"
  /\ mReport' = NoReport
  /\ UNCHANGED <<hPosted, hSeen, dispatcherVars, clockVars, utilsVars>>

\* the handler has returned and its variables are gone; the worker waits for
\* the next message
HReturn ==
  /\ hPc = "done"
  /\ hPc' = "idle"
  /\ hReq' = [src |-> <<>>, schema |-> NoSchema]
  /\ hReport' = NoReport
  /\ hResult' = Undefined
  /\ hOutReport' = NoOutReport
  /\ hPhases' = <<>>
  /\ hCompiled' = FALSE
  /\ hPosted' = <<>>
  /\ hTimer' = "none"
  /\ mReport' = NoReport
  /\ UNCHANGED <<hSeen, dispatcherVars, clockVars, utilsVars>>

HandlerNext ==
  \/ HReceive
  \/ HValidate
  \/ HNewFunction
  \/ HReturn
  \/ CheckSlot

\* the worker's handler on requests of every source text and schema
HandlerSpec == Init /\ [][HandlerNext]_vars

\* --------------------------------------------------------------------------
\* slotWorker.js: one worker serving requests one after another

\* the requests of a session: sources that fail validation with different
\* reports and sources that pass it, with and without a schema
SessionRequests ==
  {[src |-> src, schema |-> schema] :
     src \in {<<"ret5">>, <<"window">>, <<"cmt">>, <<"cmt", "loop">>,
              <<"cmt", "throwE">>},
     schema \in {NoSchema,
                 [none |-> FALSE, type |-> "number", hasProps |-> FALSE,
                  props |-> <<>>]}}

SessionReceive ==
  /\ hPc = "idle"
  /\ \E r \in SessionRequests : HRequest(r.src, r.schema)

\* History of the session, kept for its properties (no step of the worker):
\* the first request the handler has answered is recorded with the events it
\* raised, and it is noted when the worker has since answered a different
\* request.
Observe ==
  /\ hPc = "done"
  /\ IF ~hSeen.set
       THEN hSeen' = [set |-> TRUE, req |-> hReq, posted |-> hPosted,
                      later |-> FALSE]
       ELSE /\ hReq # hSeen.req
            /\ ~hSeen.later
            /\ hSeen' = [hSeen EXCEPT !.later = TRUE]
  /\ UNCHANGED <<hPc, hReq, hReport, hResult, hOutReport, hPhases, hCompiled,
                 hPosted, hTimer, mReport,
                 dispatcherVars, clockVars, utilsVars>>

SessionNext ==
  \/ SessionReceive
  \/ HValidate
  \/ HNewFunction
  \/ HReturn
  \/ Observe

SessionSpec == Init /\ [][SessionNext]_vars

\* --------------------------------------------------------------------------
\* sandbox.js: the deadline of a call

\* const timeout = options.timeout ?? 1000
DefaultTimeout == 1000
\* setTimeout(..., timeout + 50)
TimeoutMargin == 50

timeoutOf(options) ==
  IF options.timeout # Omitted THEN options.timeout ELSE DefaultTimeout

setTimeoutDelay(options) == timeoutOf(options) + TimeoutMargin

\* the values of options.timeout and options.timeoutMs that are tried
TimeoutChoices == {Omitted, 0, 50, 100, 2000}

\* the instants at which the clock is observed
Instants == {0, 50, 100, 150, 1000, 1050, 2000, 2050}

\* runSlot(slotId, code, input, params, options) of a call that no event of
\* the worker resolves
TRunSlot(options) ==
  /\ tState = "idle"
  /\ tOptions' = options
  /\ tState' = "pending"
  /\ tNow' = 0
  /\ tDeadline' = setTimeoutDelay(options)
  /\ UNCHANGED <<dispatcherVars, handlerVars, utilsVars>>

\* time passes, up to the deadline of the armed timer
TPass ==
  /\ tState = "pending"
  /\ \E t \in Instants :
       /\ t > tNow
       /\ t <= tDeadline
       /\ \A u \in Instants : u > tNow => t <= u
       /\ tNow' = t
  /\ UNCHANGED <<tOptions, tState, tDeadline, dispatcherVars, handlerVars, utilsVars>>

\* the setTimeout callback runs: the call resolves with EXECUTION_TIMEOUT
TFire ==
  /\ tState = "pending"
  /\ tNow = tDeadline
  /\ tState' = "timedout"
  /\ UNCHANGED <<tOptions, tNow, tDeadline, dispatcherVars, handlerVars, utilsVars>>

\* the next call
TReset ==
  /\ tState = "timedout"
  /\ tState' = "idle"
  /\ tNow' = 0
  /\ UNCHANGED <<tOptions, tDeadline, dispatcherVars, handlerVars, utilsVars>>

ClockNext ==
  \/ \E t \in TimeoutChoices, tms \in TimeoutChoices :
       TRunSlot([timeout |-> t, timeoutMs |-> tms])
  \/ TPass
  \/ TFire
  \/ TReset

ClockSpec == Init /\ [][ClockNext]_vars

\* --------------------------------------------------------------------------
\* slotWorker.js: createUtils and utils.random

\* most calls of the random function of createUtils on one utils object
MaxRandomCalls == 20

\* variant with a fault: the increment is left out
randomNextBare(s) ==
  LET half == (s * ((RandomMultiplier - 1) \div 2)) % RandomModulus
  IN (2 * half + s) % RandomModulus

\* s = (s * 9301 + 49297) % 233280.  The product stays below 2^53, so the
\* doubles of the program hold it exactly; here it is formed in two halves
\* (9301 = 2 * 4650 + 1) to stay within 32-bit integers.
randomNext(s) ==
  LET half == (s * ((RandomMultiplier - 1) \div 2)) % RandomModulus
  IN (2 * half + s + RandomIncrement) % RandomModulus

\* createUtils(): a new object literal, returned as it is (never frozen),
\* with a new closure behind random (let s = 42)
createUtils == [s |-> RandomSeed, members |-> MadeMembers]

\* self.onmessage on a request that passed validation:
\* const utils = createUtils()
UCreateUtils ==
  /\ uPc \in {"idle", "created", "running"}
  /\ uPc' = "created"
  /\ uS' = createUtils.s
  /\ uMembers' = createUtils.members
  /\ uN' = 0
  /\ uCall' = NoCall
  /\ uServed' = (uServed \/ uPc = "running")
  /\ UNCHANGED <<uOut, dispatcherVars, handlerVars, clockVars>>

\* What a member of the object can hold.  The object is a plain object, so
\* the code it is handed to can assign its members:
\*   "made"   the function createUtils made
\*   "const"  a function that returns a value of its own, () => 9
\*   "wrap"   a function that calls the function createUtils made, which the
\*            code kept (const o = utils.random), and returns a value of its
\*            own or one made from the result, a => m(a) + 1
\*   "value"  a value that is no function, 5: calling the member throws a
\*            TypeError
MemberKinds == {"made", "const", "wrap", "value"}

\* the value an assigned function returns of its own
AssignedValue == Ratio(9, 1)

\* the outcome of a call that threw
Thrown == [kind |-> "throw", num |-> 0, den |-> 1]

\* most calls of the original random() that one call of an assigned function
\* makes
MaxInnerCalls == 2

\* the state of the closure after k calls of the function createUtils made
RECURSIVE randomAfter(_, _)
randomAfter(s, k) == IF k = 0 THEN s ELSE randomAfter(randomNext(s), k - 1)

\* the code that holds the object assigns its member k, a new value or the
\* function createUtils made, which it kept
UAssign(k) ==
  /\ uPc \in {"created", "running"}
  /\ \E v \in MemberKinds :
       /\ v # uMembers[k]
       /\ uMembers' = [uMembers EXCEPT ![k] = v]
  /\ UNCHANGED <<uPc, uS, uN, uOut, uServed, uCall,
                 dispatcherVars, handlerVars, clockVars>>

\* A call utils.random().  The function createUtils made,
\*   () => ((s = (s * 9301 + 49297) % 233280) / 233280),
\* advances s and returns s / 233280.  A function assigned in its place
\* leaves s alone ("const"), or calls the kept original one or more times,
\* each call advancing s, and returns a value of its own or the last value
\* it drew ("wrap").
URandom ==
  /\ uPc \in {"created", "running"}
  /\ uPc' = "running"
  /\ uCall' = [fn |-> "random", a |-> <<>>, q |-> Ratio(0, 1),
               member |-> uMembers.random]
  /\ CASE uMembers.random = "made" ->
            /\ uN < MaxRandomCalls
            /\ uS' = randomNext(uS)
            /\ uN' = uN + 1
            /\ uOut' = Ratio(randomNext(uS), RandomModulus)
       [] uMembers.random = "const" ->
            /\ uOut' = AssignedValue
            /\ UNCHANGED <<uS, uN>>
       [] uMembers.random = "wrap" ->
            \E k \in 1..MaxInnerCalls :
              /\ uN + k <= MaxRandomCalls
              /\ uS' = randomAfter(uS, k)
              /\ uN' = uN + k
              /\ uOut' \in {AssignedValue,
                            Ratio(randomAfter(uS, k), RandomModulus)}
       [] OTHER ->
            /\ uOut' = Thrown
            /\ UNCHANGED <<uS, uN>>
  /\ UNCHANGED <<uMembers, uServed, dispatcherVars, handlerVars, clockVars>>

RandomNext ==
  \/ UCreateUtils
  \/ URandom
  \/ UAssign("random")

\* the utils object and its member random
RandomSpec == Init /\ [][RandomNext]_vars

\* --------------------------------------------------------------------------
\* slotWorker.js: the statistics functions of createUtils, on JavaScript
\* numbers: ratios of integers, the infinities, NaN, and the square roots of
\* ratios that are not squares

\* longest array handed to a statistics function
MaxArrayLen == 2

PosInf == [kind |-> "inf", num |-> 1, den |-> 1]
NegInf == [kind |-> "inf", num |-> 0 - 1, den |-> 1]
NaN == [kind |-> "nan", num |-> 0, den |-> 1]
Zero == Ratio(0, 1)
One == Ratio(1, 1)

Abs(n) == IF n < 0 THEN 0 - n ELSE n

RECURSIVE Gcd(_, _)
Gcd(m, n) == IF n = 0 THEN m ELSE Gcd(n, m % n)

\* the ratio num/den in lowest terms, den > 0
Norm(num, den) ==
  LET g == Gcd(Abs(num), Abs(den))
      sgn == IF den < 0 THEN 0 - 1 ELSE 1
  IN Ratio(sgn * (num \div g), sgn * (den \div g))

Sign(x) == IF x.num > 0 THEN 1 ELSE IF x.num < 0 THEN 0 - 1 ELSE 0

Neg(x) == [x EXCEPT !.num = 0 - x.num]

\* x + y
Plus(x, y) ==
  CASE x.kind = "nan" \/ y.kind = "nan" -> NaN
    [] x.kind = "sqrt" \/ y.kind = "sqrt" -> NaN
    [] x.kind = "inf" /\ y.kind = "inf" -> IF x.num = y.num THEN x ELSE NaN
    [] x.kind = "inf" -> x
    [] y.kind = "inf" -> y
    [] OTHER -> Norm(x.num * y.den + y.num * x.den, x.den * y.den)

\* x - y
Minus(x, y) == Plus(x, Neg(y))

\* x * y
Times(x, y) ==
  CASE x.kind = "nan" \/ y.kind = "nan" -> NaN
    [] x.kind = "sqrt" \/ y.kind = "sqrt" -> NaN
    [] x.kind = "inf" \/ y.kind = "inf" ->
         IF Sign(x) * Sign(y) = 0 THEN NaN
         ELSE IF Sign(x) * Sign(y) > 0 THEN PosInf ELSE NegInf
    [] OTHER -> Norm(x.num * y.num, x.den * y.den)

\* x / n for an array length n
Over(x, n) ==
  CASE x.kind = "nan" \/ x.kind = "sqrt" -> NaN
    [] n = 0 -> IF Sign(x) = 0 THEN NaN
                ELSE IF Sign(x) > 0 THEN PosInf ELSE NegInf
    [] x.kind = "inf" -> x
    [] OTHER -> Norm(x.num, x.den * n)

IsSquare(n) == \E r \in 0..n : r * r = n
Root(n) == CHOOSE r \in 0..n : r * r = n

\* Math.sqrt(x)
Sqrt(x) ==
  CASE x.kind = "nan" \/ x.kind = "sqrt" -> NaN
    [] x.kind = "inf" -> IF x.num > 0 THEN PosInf ELSE NaN
    [] x.num < 0 -> NaN
    [] IsSquare(x.num) /\ IsSquare(x.den) -> Ratio(Root(x.num), Root(x.den))
    [] OTHER -> [kind |-> "sqrt", num |-> x.num, den |-> x.den]

\* a.reduce((s, v) => s + v, 0) over the elements i..Len(a), from acc
RECURSIVE reduceSum(_, _, _)
reduceSum(a, i, acc) ==
  IF i > Len(a) THEN acc ELSE reduceSum(a, i + 1, Plus(acc, a[i]))

\* variant with a fault: no guard for the empty array
meanUnguarded(a) == Over(reduceSum(a, 1, Zero), Len(a))

\* mean: a => a.length ? a.reduce((s, v) => s + v, 0) / a.length : 0
mean(a) == IF Len(a) # 0 THEN Over(reduceSum(a, 1, Zero), Len(a)) ELSE Zero

\* what a call of a member that holds `member` gives, when the function
\* createUtils made gives `made` on the same arguments
memberCall(member, made) ==
  CASE member = "made" -> made
    [] member = "const" -> AssignedValue
    [] member = "wrap" -> Plus(made, One)
    [] OTHER -> Thrown

\* stdev: a => { const m = utils.mean(a);
\*               return Math.sqrt(utils.mean(a.map(v => (v - m) * (v - m)))); }
\* utils.mean is read from the object at each of the two calls; meanMember is
\* what the member holds
stdev(meanMember, a) ==
  LET m == memberCall(meanMember, mean(a)) IN
    IF m = Thrown THEN Thrown
    ELSE Sqrt(memberCall(meanMember,
                mean([i \in 1..Len(a) |-> Times(Minus(a[i], m), Minus(a[i], m))])))

\* (x, y) => x - y is negative
Before(x, y) == LET d == Minus(x, y) IN d.kind # "nan" /\ Sign(d) < 0

\* v put into the sorted b behind every element that is not after it
RECURSIVE insertSorted(_, _)
insertSorted(b, v) ==
  IF b = <<>> THEN <<v>>
  ELSE IF Before(v, b[Len(b)])
    THEN Append(insertSorted(SubSeq(b, 1, Len(b) - 1), v), b[Len(b)])
    ELSE Append(b, v)

\* [...a].sort((x, y) => x - y)
RECURSIVE sorted(_)
sorted(a) ==
  IF a = <<>> THEN <<>>
  ELSE insertSorted(sorted(SubSeq(a, 1, Len(a) - 1)), a[Len(a)])

\* b[i] of JavaScript, as an operand: undefined becomes NaN
At(b, i) == IF i >= 0 /\ i < Len(b) THEN b[i + 1] ELSE NaN

\* quantile: (a, q) => { const b = [...a].sort((x, y) => x - y);
\*   const i = q * (b.length - 1); const l = Math.floor(i);
\*   const u = Math.ceil(i); const w = i % 1;
\*   return b[l] * (1 - w) + b[u] * w; }
quantile(a, q) ==
  LET b == sorted(a)
      i == Times(q, Ratio(Len(b) - 1, 1))
  IN IF Sign(i) < 0 THEN NaN   \* empty array: b[-1] or b[0] is undefined
     ELSE LET l == i.num \div i.den
              u == IF i.num % i.den = 0 THEN l ELSE l + 1
              w == Norm(i.num % i.den, i.den)
          IN Plus(Times(At(b, l), Minus(One, w)), Times(At(b, u), w))

\* the array elements and the values of q that are tried
Elements == {Ratio(5, 1), Ratio(0 - 3, 1), Zero, PosInf}
Quantiles == {Zero, Ratio(1, 4), Ratio(1, 2), One}

Arrays == SeqsUpTo(Elements, MaxArrayLen)

\* a call utils.mean(a)
UMean ==
  /\ \E a \in Arrays :
       /\ uCall' = [fn |-> "mean", a |-> a, q |-> Zero,
                    member |-> uMembers.mean]
       /\ uOut' = memberCall(uMembers.mean, mean(a))
  /\ UNCHANGED <<uPc, uS, uN, uMembers, uServed,
                 dispatcherVars, handlerVars, clockVars>>

\* a call utils.stdev(a) of the function createUtils made, which reads
\* utils.mean from the object
UStdev ==
  /\ \E a \in Arrays :
       /\ uCall' = [fn |-> "stdev", a |-> a, q |-> Zero,
                    member |-> uMembers.mean]
       /\ uOut' = stdev(uMembers.mean, a)
  /\ UNCHANGED <<uPc, uS, uN, uMembers, uServed,
                 dispatcherVars, handlerVars, clockVars>>

\* a call of the function createUtils made as quantile
UQuantile ==
  /\ \E a \in Arrays, q \in Quantiles :
       /\ uCall' = [fn |-> "quantile", a |-> a, q |-> q, member |-> "made"]
       /\ uOut' = quantile(a, q)
  /\ UNCHANGED <<uPc, uS, uN, uMembers, uServed,
                 dispatcherVars, handlerVars, clockVars>>

StatsNext ==
  \/ UCreateUtils
  \/ UAssign("mean")
  \/ UMean
  \/ UStdev
  \/ UQuantile

StatsSpec == Init /\ [][StatsNext]_vars

\* --------------------------------------------------------------------------
\* sandbox.js with requests and hosts that fail

\* runSlot with an input, params or outputSchema that the structured clone of
\* worker.postMessage rejects: the promise executor throws after the timer
\* and the handlers are set, and the promise is rejected
RunSlotUnclonable(code) ==
  /\ nCalls < MaxCalls
  /\ LET c == nCalls + 1
         worker == ensureWorker
     IN
       /\ nCalls' = c
       /\ _worker' = worker
       /\ nWorkers' = IF worker > nWorkers THEN worker ELSE nWorkers
       /\ status' = IF worker > nWorkers
                      THEN [status EXCEPT ![worker] = "loading"]
                      ELSE status
       /\ callWorker' = [callWorker EXCEPT ![c] = worker]
       /\ callCode' = [callCode EXCEPT ![c] = code]
       /\ promise' = [promise EXCEPT ![c] = "rejected"]
       /\ timer' = SetTimeout(c)
       /\ onmessage' = [onmessage EXCEPT ![worker] = c]
       /\ onerror' = [onerror EXCEPT ![worker] = c]
       /\ sequential' = (sequential /\
                          \A d \in 1..nCalls : promise[d] # "pending")
  /\ UNCHANGED <<terminated, inbox, outbox, result, resolveCount,
                 handlerVars, clockVars, utilsVars>>

\* runSlot when `new Worker(...)` of ensureWorker throws: runSlot throws and
\* returns no promise
RunSlotNoWorker(code) ==
  /\ nCalls < MaxCalls
  /\ _worker = Null
  /\ LET c == nCalls + 1 IN
       /\ nCalls' = c
       /\ callCode' = [callCode EXCEPT ![c] = code]
       /\ promise' = [promise EXCEPT ![c] = "thrown"]
       /\ sequential' = (sequential /\
                          \A d \in 1..nCalls : promise[d] # "pending")
  /\ UNCHANGED <<_worker, nWorkers, terminated, status, onmessage, onerror,
                 inbox, outbox, callWorker, timer, result, resolveCount,
                 handlerVars, clockVars, utilsVars>>

FaultNext ==
  \/ Next
  \/ \E code \in Codes : RunSlotUnclonable(code)
  \/ \E code \in Codes : RunSlotNoWorker(code)

FaultSpec == Init /\ [][FaultNext]_vars

\* armed timers eventually fire
FairSpec == Spec /\ \A c \in Calls : WF_vars(TimerFire(c))

\* --------------------------------------------------------------------------
\* Properties

Issued == 1..nCalls

Pending(c) == promise[c] = "pending"
Fulfilled(c) == promise[c] = "fulfilled"

\* the result came in a message of the worker
FromWorker(v) == v.code \notin {"EXECUTION_TIMEOUT", "WORKER_ERROR"}

Timeout == Failure("EXECUTION_TIMEOUT", "execution", Null)

\* the worker of call c has handled c's request, whose slot code never
\* terminates
LoopHandled(c) ==
  /\ callCode[c] = "loop"
  /\ status[callWorker[c]] = "ready"
  /\ \A i \in 1..Len(inbox[callWorker[c]]) : inbox[callWorker[c]][i].id # c

\* C1: a call is never resolved with the response the worker produced for
\* another call's request.
C1_OwnResponse ==
  \A c \in Issued :
    (Fulfilled(c) /\ FromWorker(result[c])) => result[c].req = c

\* C2: on any one worker at most one call is outstanding at a time.
C2_OneOutstanding ==
  \A w \in Workers :
    Cardinality({c \in Issued : callWorker[c] = w /\ Pending(c)}) <= 1

\* C3: a call's promise is settled once: after it is fulfilled no later event
\* (message, error event, timer) changes its state or its value.
C3_SettledOnce ==
  [][\A c \in Calls :
       Fulfilled(c) => (promise'[c] = "fulfilled" /\ result'[c] = result[c])]_vars

\* a call whose resolve has been invoked again after it was settled
C3_Witness == \E c \in Issued : Fulfilled(c) /\ resolveCount[c] >= 2

\* C4: every call that has been issued is eventually resolved, whatever the
\* worker does, provided armed timers fire.
C4_EventuallyResolved ==
  \A c \in Calls : Pending(c) ~> Fulfilled(c)

\* resolved calls that no message resolved: one on a worker that answers (its
\* timer resolved it), the other posted to a worker whose script failed to
\* load
C4_Witness ==
  /\ \E c \in Issued :
       status[callWorker[c]] = "ready" /\ Fulfilled(c) /\ result[c] = Timeout
  /\ \E c \in Issued : status[callWorker[c]] = "failed" /\ Fulfilled(c)

\* C5: a call whose slot code never terminates resolves with
\* EXECUTION_TIMEOUT in phase execution and its worker is terminated.
C5_LoopTimesOut ==
  \A c \in Issued :
    (LoopHandled(c) /\ Fulfilled(c)) =>
      /\ result[c].ok = FALSE
      /\ result[c].code = "EXECUTION_TIMEOUT"
      /\ result[c].phase = "execution"
      /\ callWorker[c] \in terminated

\* C6: once a call's timer has expired its result is EXECUTION_TIMEOUT and
\* stays so, and its worker is terminated and no longer the handle, also when
\* a message of that worker is dispatched after the expiry.
C6_ExpiredIsTimeout ==
  \A c \in Issued :
    timer[c] = "fired" =>
      /\ Fulfilled(c)
      /\ result[c] = Timeout
      /\ callWorker[c] \in terminated
      /\ _worker # callWorker[c]

\* the timer of a call expired and the call's handler ran afterwards
C6_Witness ==
  \E c \in Issued : timer[c] = "fired" /\ resolveCount[c] >= 2

\* C7: the handle is empty or refers to a worker that was not terminated, and
\* no request is posted to a terminated worker.
C7_HandleLive ==
  /\ [](_worker = Null \/ _worker \notin terminated)
  /\ [][\A w \in terminated : Len(inbox'[w]) <= Len(inbox[w])]_vars

\* after a timeout terminated a worker, a later call runs on a new worker
C7_Witness ==
  \E c \in Issued :
    /\ terminated # {}
    /\ callWorker[c] \notin terminated
    /\ \A w \in terminated : callWorker[c] > w

\* C8: the termination of a timed-out call's worker leaves every other
\* in-flight call its worker.
C8_NoHarm ==
  \A c \in Issued : Pending(c) => callWorker[c] \notin terminated

\* C9: when the worker raises an error event while a call is pending on it,
\* the call resolves with WORKER_ERROR.
C9_ErrorResolves ==
  [][\A w \in Workers :
       OnError(w)
       => \A c \in Issued :
            (callWorker[c] = w /\ Pending(c)) =>
              (promise'[c] = "fulfilled" /\ result'[c].code = "WORKER_ERROR")]_vars

Benign(v) ==
  \/ v.ok
  \/ v.code \in {"VALIDATION_ERROR", "EXECUTION_ERROR", "OUTPUT_VALIDATION_ERROR"}

\* C10: no worker exists before the first call; sequential calls that ended
\* in success, VALIDATION_ERROR, EXECUTION_ERROR or OUTPUT_VALIDATION_ERROR
\* all ran on the one worker, which is still the handle and not terminated;
\* and the delivery of a worker message never changes the handle, terminates
\* or creates a worker.
C10_Reuse ==
  /\ [](nCalls = 0 => (nWorkers = 0 /\ _worker = Null))
  /\ []((/\ nCalls > 0
         /\ sequential
         /\ \A c \in Issued : Fulfilled(c) => Benign(result[c]))
        => (/\ nWorkers = 1
            /\ _worker = 1
            /\ terminated = {}
            /\ \A c \in Issued : callWorker[c] = 1))
  /\ [][\A w \in Workers :
          OnMessage(w)
          => UNCHANGED <<_worker, nWorkers, terminated>>]_vars

\* two sequential calls with different benign outcomes, both resolved
C10_Witness ==
  /\ sequential
  /\ nCalls = 2
  /\ \A c \in Issued : Fulfilled(c) /\ Benign(result[c])
  /\ result[1].code # result[2].code

\* --------------------------------------------------------------------------
\* Properties of the worker's handler, of validateOutput and of the deadline

Range(f) == {f[i] : i \in DOMAIN f}

IsPrefix(p, q) == Len(p) <= Len(q) /\ \A i \in 1..Len(p) : p[i] = q[i]

\* braces balance: the source is the text of a function body
WellFormed(src) ==
  /\ \A i \in 1..Len(src) : src[i] = "}" => Depth(src, i) >= 1
  /\ Depth(src, Len(src) + 1) = 0

Validated == hReport # NoReport
OutputChecked == hOutReport # NoOutReport

\* C11: the handler enters validation, execution and output checking in that
\* order; a failed phase posts its failure at once and ends the handler: code
\* that failed validation is never compiled, and a value that failed output
\* validation is never posted as data.
C11_PhaseOrder ==
  /\ IsPrefix(hPhases, <<"validation", "execution", "output">>)
  /\ (Validated /\ ~hReport.ok) =>
       (/\ ~hCompiled
        /\ hPhases = <<"validation">>
        /\ hPc = "done"
        /\ Len(hPosted) = 1
        /\ hPosted[1].code = "VALIDATION_ERROR")
  /\ hCompiled => (Validated /\ hReport.ok)
  /\ (hPc = "done" /\ hPhases = <<"validation", "execution">>) =>
       (Len(hPosted) = 1 /\ ~hPosted[1].ok)
  /\ (OutputChecked /\ (hOutReport.threw \/ ~hOutReport.ok)) =>
       (hPc = "done" /\ Len(hPosted) = 1 /\ ~hPosted[1].ok)
  /\ \A i \in 1..Len(hPosted) :
       hPosted[i].ok => (OutputChecked /\ hOutReport.ok /\ hPosted[i].data = hResult)

\* the handler has ended after a failed validation of a source that, as a
\* function body, would have returned a value
C11_Witness ==
  /\ hPc = "done"
  /\ Validated /\ ~hReport.ok
  /\ WellFormed(hReq.src)
  /\ bodyOutcome(hReq.src, 1).kind = "return"
  /\ bodyOutcome(hReq.src, 1).value # Undefined

\* C12: runSlot never throws and its promise is never rejected.
C12_NeverThrows ==
  \A c \in Issued : promise[c] \notin {"rejected", "thrown"}

ErrorCodes == {"VALIDATION_ERROR", "EXECUTION_ERROR", "EXECUTION_TIMEOUT",
               "OUTPUT_VALIDATION_ERROR", "WORKER_ERROR"}

\* C14: every failure a call is resolved with has one of the five codes and
\* one of the three phases, VALIDATION_ERROR with phase validation,
\* OUTPUT_VALIDATION_ERROR with phase output, EXECUTION_ERROR and
\* EXECUTION_TIMEOUT with phase execution.
C14_CodesAndPhases ==
  \A c \in Issued :
    (Fulfilled(c) /\ ~result[c].ok) =>
      /\ result[c].code \in ErrorCodes
      /\ result[c].phase \in {"validation", "execution", "output"}
      /\ result[c].code = "VALIDATION_ERROR" => result[c].phase = "validation"
      /\ result[c].code = "OUTPUT_VALIDATION_ERROR" => result[c].phase = "output"
      /\ result[c].code \in {"EXECUTION_ERROR", "EXECUTION_TIMEOUT"}
           => result[c].phase = "execution"

\* two calls resolved with failures of different phases
C14_Witness ==
  \E c, d \in Issued :
    /\ Fulfilled(c) /\ ~result[c].ok
    /\ Fulfilled(d) /\ ~result[d].ok
    /\ result[c].code = "VALIDATION_ERROR"
    /\ result[d].code = "EXECUTION_TIMEOUT"

\* C15: for every source in which a blacklisted identifier occurs,
\* validateSlot reports ok:false with an entry naming the identifier, and the
\* handler posts VALIDATION_ERROR without compiling the source.
C15_BlacklistReported ==
  \A i \in 1..Len(hReq.src) :
    (/\ Validated
     /\ WellFormed(hReq.src)
     /\ hReq.src[i] \in BLACKLISTED_IDENTIFIERS)
    => (/\ ~hReport.ok
        /\ ("Blacklisted identifier: " \o hReq.src[i]) \in Range(hReport.errors)
        /\ ~hCompiled
        /\ hPosted[1].code = "VALIDATION_ERROR")

\* C16: for every source without a return statement, validateSlot reports
\* ok:false with the error that a return is required, and the handler posts
\* VALIDATION_ERROR of phase validation.
C16_ReturnRequired ==
  (/\ Validated
   /\ WellFormed(hReq.src)
   /\ \A i \in 1..Len(hReq.src) : ~IsReturn(hReq.src[i]))
  => (/\ ~hReport.ok
      /\ "Function must have a return statement" \in Range(hReport.errors)
      /\ hPosted[1].code = "VALIDATION_ERROR"
      /\ hPosted[1].phase = "validation")

\* the checks of the output validator as the specification states them
Satisfies(value, schema) ==
  \/ schema.none
  \/ /\ schema.type # "" => value.type = schema.type
     /\ \A i \in 1..Len(schema.props) :
          schema.props[i].optional \/ schema.props[i].key \in value.keys
     /\ value.size <= MaxOutputSize
     /\ value.len <= MaxArrayLength

\* C17: when the code passed validation and returned normally with a value
\* that satisfies the output schema (or there is none), the handler posts
\* ok:true with that value as data.
C17_SuccessData ==
  (/\ hPc = "done"
   /\ Validated /\ hReport.ok
   /\ bodyOutcome(hReq.src, 1).kind = "return"
   /\ Satisfies(bodyOutcome(hReq.src, 1).value, hReq.schema))
  => (/\ Len(hPosted) = 1
      /\ hPosted[1].ok
      /\ hPosted[1].data = bodyOutcome(hReq.src, 1).value)

\* C18 as stated: the timer of a call expires options.timeoutMs plus the
\* margin after the call, 1000 plus the margin when timeoutMs is omitted.
C18_TimeoutMs ==
  tState = "timedout" =>
    tNow = (IF tOptions.timeoutMs # Omitted THEN tOptions.timeoutMs ELSE 1000)
             + TimeoutMargin

\* the required keys of a schema that a value lacks
MissingKeys(value, schema) ==
  {schema.props[i].key : i \in {j \in 1..Len(schema.props) :
      ~schema.props[j].optional /\ schema.props[j].key \notin value.keys}}

\* C19: when the slot returns an object that lacks a property the schema
\* declares and does not mark optional, the handler posts
\* OUTPUT_VALIDATION_ERROR whose message names each missing key and no
\* optional one.
C19_MissingProperty ==
  LET out == bodyOutcome(hReq.src, 1) IN
    (/\ hPc = "done"
     /\ WellFormed(hReq.src)
     /\ out.kind = "return"
     /\ out.value.type = "object" /\ ~out.value.isNull
     /\ hReq.schema.hasProps
     /\ MissingKeys(out.value, hReq.schema) # {})
    => (/\ Len(hPosted) = 1
        /\ hPosted[1].code = "OUTPUT_VALIDATION_ERROR"
        /\ \A k \in Keys :
             ("Missing required output property: " \o k) \in Range(hPosted[1].message)
               <=> k \in MissingKeys(out.value, hReq.schema))

\* C20: when the slot code returns an array of more than 50,000 elements and
\* a schema is given, the handler posts OUTPUT_VALIDATION_ERROR.
C20_ArrayLength ==
  LET out == bodyOutcome(hReq.src, 1) IN
    (/\ hPc = "done"
     /\ WellFormed(hReq.src)
     /\ ~hReq.schema.none
     /\ out.kind = "return"
     /\ out.value.isArray
     /\ out.value.len > MaxArrayLength)
    => (/\ Len(hPosted) = 1
        /\ hPosted[1].code = "OUTPUT_VALIDATION_ERROR")

\* --------------------------------------------------------------------------
\* Properties of the utils object

\* s_n of the recurrence s_0 = 42, s_n = (9301 * s_(n-1) + 49297) mod 233280,
\* the product formed by thousands
RECURSIVE LcgState(_)
LcgState(n) ==
  IF n = 0 THEN 42
  ELSE LET p == LcgState(n - 1) IN
         ((p % 1000) * 9301 + (((p \div 1000) * 9301) % 233280) * 1000 + 49297)
           % 233280

\* C21: on every utils object the n-th call of the random function of
\* createUtils returns s_n / 233280 with 0 <= s_n < 233280, whatever the code
\* that holds the object assigns to its members; only a call of that function
\* changes the state of the generator, by one step of the recurrence for each
\* call, and every new utils object starts again from the seed.
C21_Random ==
  /\ [](/\ uS = LcgState(uN)
        /\ 0 <= uS /\ uS < 233280
        /\ (uCall.fn = "random" /\ uCall.member = "made")
             => uOut = [kind |-> "fin", num |-> LcgState(uN), den |-> 233280])
  /\ [][uS' # uS => (URandom \/ UCreateUtils)]_vars
  /\ [][URandom => (uN' >= uN /\ uS' = randomAfter(uS, uN' - uN))]_vars
  /\ [][UCreateUtils => (uS' = 42 /\ uN' = 0)]_vars

\* the third call of random() on a utils object whose members are as made,
\* after an earlier object was used
C21_Witness ==
  /\ uServed
  /\ uMembers = MadeMembers
  /\ uCall.fn = "random" /\ uCall.member = "made"
  /\ uN = 3

C23_OutputPhase ==
  LET out == bodyOutcome(hReq.src, 1) IN
    (/\ hPc = "done"
     /\ WellFormed(hReq.src)
     /\ \E i \in 1..Len(hReq.src) : IsReturn(hReq.src[i])
     /\ out.kind = "return"
     /\ \/ validateOutputReport(out.value, hReq.schema).threw
        \/ ~Cloneable(out.value))
    => (/\ Len(hPosted) = 1
        /\ hPosted[1].phase = "output"
        /\ hPosted[1].code # "EXECUTION_ERROR")

\* C24: the report of validateSlot has an entry for every rule the source
\* violates: the missing return, the parse error, and each blacklisted
\* identifier it names.
C24_AllViolations ==
  Validated =>
    /\ ~ReturnRegex(hReq.src)
         => "Function must have a return statement" \in Range(hReport.errors)
    /\ ~AcornParses(hReq.src) => "Parse error" \in Range(hReport.errors)
    /\ \A i \in 1..Len(hReq.src) :
         hReq.src[i] \in BLACKLISTED_IDENTIFIERS
           => ("Blacklisted identifier: " \o hReq.src[i]) \in Range(hReport.errors)

\* the checks of the output validator that a value violates, counted: the
\* type, each required property the value lacks, the size and the array
\* length
ViolatedChecks(value, schema) ==
  (IF schema.type # "" /\ value.type # schema.type THEN 1 ELSE 0)
  + Cardinality(MissingKeys(value, schema))
  + (IF value.size > MaxOutputSize THEN 1 ELSE 0)
  + (IF value.isArray /\ value.len > MaxArrayLength THEN 1 ELSE 0)

\* C25: when the slot code returns a value that violates checks of the output
\* validator, the handler posts OUTPUT_VALIDATION_ERROR of phase output whose
\* message has one entry for each violated check.
C25_AllChecks ==
  LET out == bodyOutcome(hReq.src, 1) IN
    (/\ hPc = "done"
     /\ WellFormed(hReq.src)
     /\ \E i \in 1..Len(hReq.src) : IsReturn(hReq.src[i])
     /\ ~hReq.schema.none
     /\ out.kind = "return"
     /\ ViolatedChecks(out.value, hReq.schema) > 0)
    => (/\ Len(hPosted) = 1
        /\ hPosted[1].code = "OUTPUT_VALIDATION_ERROR"
        /\ hPosted[1].phase = "output"
        /\ Len(hPosted[1].message) = ViolatedChecks(out.value, hReq.schema))

\* C26: the text handed to new Function declares every global name of the
\* validator's blacklist, and Date, so that slot code finds them undefined.
C26_GlobalsShadowed ==
  hCompiled =>
    /\ \A n \in BLACKLISTED_IDENTIFIERS \ {"constructor", "__proto__"} :
         n \in WrappedConsts
    /\ "Date" \in WrappedConsts

\* C28: when the handler has ended it has posted exactly one response
\* message and raised no error, and its timer is not armed.
C28_OneResponse ==
  hPc = "done" =>
    /\ Len(hPosted) = 1
    /\ hPosted[1].type = "message"
    /\ hTimer # "armed"

\* the handler has ended after new Function threw: one failure posted, the
\* timer never set
C28_Witness ==
  /\ hPc = "done"
  /\ hPhases = <<"validation", "execution">>
  /\ Len(hPosted) = 1
  /\ hPosted[1].code = "EXECUTION_ERROR"
  /\ hTimer = "none"

\* --------------------------------------------------------------------------
\* Further properties of the dispatcher

\* C29: every worker that was constructed is the one the handle refers to or
\* has been terminated.
C29_NoOrphan ==
  \A w \in 1..nWorkers : w = _worker \/ w \in terminated

\* C30: a call resolved by a worker message or an error event has its timer
\* cancelled; a timer fires only for a call that is still pending; an error
\* handler empties the handle only for a call that is pending or timed out;
\* the delivery of a worker message leaves the handle and the workers as
\* they are.
C30_TimerCancelled ==
  /\ [](\A c \in Issued :
          (Fulfilled(c) /\ result[c].code # "EXECUTION_TIMEOUT")
            => timer[c] = "cleared")
  /\ [][\A c \in Calls : TimerFire(c) => Pending(c)]_vars
  /\ [][\A w \in Workers :
          OnError(w) => \/ Pending(onerror[w])
                        \/ result[onerror[w]].code = "EXECUTION_TIMEOUT"]_vars
  /\ [][\A w \in Workers :
          OnMessage(w) => (_worker' = _worker /\ terminated' = terminated)]_vars

\* one call resolved by a worker message and one by an error event
C30_Witness ==
  \E c, d \in Issued :
    /\ Fulfilled(c) /\ FromWorker(result[c]) /\ timer[c] = "cleared"
    /\ Fulfilled(d) /\ result[d].code = "WORKER_ERROR" /\ timer[d] = "cleared"

====
